---- MODULE Spec2Model ----
(***************************************************************************)
(* State-machine model of the stock ingestion pipeline (package main of    *)
(* the data fetcher): main, initDB, checkDBConnection, fetchStocks,        *)
(* retryWithBackoff, fetchAllStocks, attemptTransaction, isRetryableError, *)
(* processBatch, cleanupResources and saveStocks.                          *)
(*                                                                         *)
(* The remote API and the database are the environment: every call to      *)
(* them succeeds or fails nondeterministically.  Durations are in          *)
(* milliseconds.  An error value is a sequence of text fragments (the      *)
(* layers fmt.Errorf wraps around the cause); the empty sequence is nil.   *)
(***************************************************************************)
EXTENDS Integers, Sequences, FiniteSets, TLC

(* ---- bounds of the explored inputs ---- *)
MaxPages == 3
PageLen == 20
KeyPeriods == {7, 26}
Cursors == <<"a", "b", "c", "d", "e", "f">>

(* ---- program constants ---- *)
batchSize == 25
maxRetries == 5
connMaxRetries == 5
fetchAttempts == 3
cleanupEvery == 5
poolSize == 25

NoErr == <<>>
Nil == [kind |-> "nil"]

Min2(a, b) == IF a < b THEN a ELSE b

RECURSIVE Pow2(_)
Pow2(n) == IF n <= 0 THEN 1 ELSE 2 * Pow2(n - 1)

(* ---- text of the messages, character by character ---- *)
Chars(s) ==
    CASE
      s = "deadlock" ->
        <<"d", "e", "a", "d", "l", "o", "c", "k">>
   []
      s = "timeout" ->
        <<"t", "i", "m", "e", "o", "u", "t">>
   []
      s = "connection" ->
        <<"c", "o", "n", "n", "e", "c", "t", "i", "o", "n">>
   []
      s = "restart" ->
        <<"r", "e", "s", "t", "a", "r", "t">>
   []
      s = "try again" ->
        <<"t", "r", "y", " ", "a", "g", "a", "i", "n">>
   []
      s = "lock" ->
        <<"l", "o", "c", "k">>
   []
      s = "concurrent" ->
        <<"c", "o", "n", "c", "u", "r", "r", "e", "n", "t">>
   []
      s = "retry" ->
        <<"r", "e", "t", "r", "y">>
   []
      s = "conflict" ->
        <<"c", "o", "n", "f", "l", "i", "c", "t">>
   []
      s = "broken" ->
        <<"b", "r", "o", "k", "e", "n">>
   []
      s = "reset by peer" ->
        <<"r", "e", "s", "e", "t", " ", "b", "y", " ", "p", "e", "e", "r">>
   []
      s = "i/o timeout" ->
        <<"i", "/", "o", " ", "t", "i", "m", "e", "o", "u", "t">>
   []
      s = "deadlock detected" ->
        <<"d", "e", "a", "d", "l", "o", "c", "k", " ", "d", "e", "t", "e", "c", "t", "e", "d">>
   []
      s = "restart transaction" ->
        <<"r", "e", "s", "t", "a", "r", "t", " ", "t", "r", "a", "n", "s", "a", "c", "t", "i", "o", "n">>
   []
      s = "bad connection" ->
        <<"b", "a", "d", " ", "c", "o", "n", "n", "e", "c", "t", "i", "o", "n">>
   []
      s = "syntax error" ->
        <<"s", "y", "n", "t", "a", "x", " ", "e", "r", "r", "o", "r">>
   []
      s = "broken pipe" ->
        <<"b", "r", "o", "k", "e", "n", " ", "p", "i", "p", "e">>
   []
      s = "ON CONFLICT DO UPDATE command cannot affect row a second time" ->
        <<"O", "N", " ", "C", "O", "N", "F", "L", "I", "C", "T", " ", "D", "O", " ", "U", "P", "D", "A", "T", "E", " ", "c", "o", "m", "m", "a", "n", "d", " ", "c", "a", "n", "n", "o", "t", " ", "a", "f", "f", "e", "c", "t", " ", "r", "o", "w", " ", "a", " ", "s", "e", "c", "o", "n", "d", " ", "t", "i", "m", "e">>
   []
      s = "relation \"stocks\" does not exist" ->
        <<"r", "e", "l", "a", "t", "i", "o", "n", " ", "\"", "s", "t", "o", "c", "k", "s", "\"", " ", "d", "o", "e", "s", " ", "n", "o", "t", " ", "e", "x", "i", "s", "t">>
   []
      s = "error iniciando transaccion: " ->
        <<"e", "r", "r", "o", "r", " ", "i", "n", "i", "c", "i", "a", "n", "d", "o", " ", "t", "r", "a", "n", "s", "a", "c", "c", "i", "o", "n", ":", " ">>
   []
      s = "error ejecutando consulta: " ->
        <<"e", "r", "r", "o", "r", " ", "e", "j", "e", "c", "u", "t", "a", "n", "d", "o", " ", "c", "o", "n", "s", "u", "l", "t", "a", ":", " ">>
   []
      s = "error confirmando transaccion: " ->
        <<"e", "r", "r", "o", "r", " ", "c", "o", "n", "f", "i", "r", "m", "a", "n", "d", "o", " ", "t", "r", "a", "n", "s", "a", "c", "c", "i", "o", "n", ":", " ">>
   []
      s = "error insertando stocks despues de 5 intentos: " ->
        <<"e", "r", "r", "o", "r", " ", "i", "n", "s", "e", "r", "t", "a", "n", "d", "o", " ", "s", "t", "o", "c", "k", "s", " ", "d", "e", "s", "p", "u", "e", "s", " ", "d", "e", " ", "5", " ", "i", "n", "t", "e", "n", "t", "o", "s", ":", " ">>
   []
      s = "error verificando conexion a la base de datos: " ->
        <<"e", "r", "r", "o", "r", " ", "v", "e", "r", "i", "f", "i", "c", "a", "n", "d", "o", " ", "c", "o", "n", "e", "x", "i", "o", "n", " ", "a", " ", "l", "a", " ", "b", "a", "s", "e", " ", "d", "e", " ", "d", "a", "t", "o", "s", ":", " ">>


RECURSIVE ErrText(_)
ErrText(e) == IF e = <<>> THEN <<>> ELSE Chars(Head(e)) \o ErrText(Tail(e))

(* strings.Contains guarded against the empty string *)
contains(s, substr) ==
    IF s = <<>> THEN FALSE
    ELSE \E k \in 0..(Len(s) - Len(substr)) :
            \A j \in 1..Len(substr) : s[k + j] = substr[j]

(* A classifier that retries every error. *)
isRetryableError_always(err) == err # NoErr

isRetryableError(err) ==
    IF err = NoErr THEN FALSE
    ELSE LET errMsg == ErrText(err)
         IN \/ contains(errMsg, Chars("deadlock"))
            \/ contains(errMsg, Chars("timeout"))
            \/ contains(errMsg, Chars("connection"))
            \/ contains(errMsg, Chars("restart"))
            \/ contains(errMsg, Chars("try again"))
            \/ contains(errMsg, Chars("lock"))
            \/ contains(errMsg, Chars("concurrent"))
            \/ contains(errMsg, Chars("retry"))
            \/ contains(errMsg, Chars("conflict"))

(* A connection test that misses the word "connection". *)
isConnectionError_brokenOnly(err) ==
    LET errMsg == ErrText(err)
    IN \/ contains(errMsg, Chars("broken"))
       \/ contains(errMsg, Chars("reset by peer"))
       \/ contains(errMsg, Chars("i/o timeout"))

(* processBatch: the test that triggers the reconnect *)
isConnectionError(err) ==
    LET errMsg == ErrText(err)
    IN \/ contains(errMsg, Chars("connection"))
       \/ contains(errMsg, Chars("broken"))
       \/ contains(errMsg, Chars("reset by peer"))
       \/ contains(errMsg, Chars("i/o timeout"))

(* ---- records and the remote source ---- *)

(* The i-th record served by the remote source; with key period p the     *)
(* records i and i + p carry the same (ticker, time) and different        *)
(* non-key fields.                                                         *)
Stock(i, p) ==
    [ticker      |-> ((i - 1) % p) \div 2,
     time        |-> ((i - 1) % p) % 2,
     company     |-> i,
     brokerage   |-> i % 3,
     action      |-> "upgraded by",
     rating_from |-> "Neutral",
     rating_to   |-> "Buy",
     target_from |-> "$10.00",
     target_to   |-> "$12.00"]

(* APIResponse of page j out of n, when the pages before it hold `before` *)
(* records and this one holds `len`.                                      *)
APIResponse(j, n, before, len, p) ==
    [items     |-> [x \in 1..len |-> Stock(before + x, p)],
     next_page |-> IF j < n THEN Cursors[j] ELSE ""]

(* The remote source: n pages of PageLen records each, the last one       *)
(* possibly empty.                                                         *)
RemotePages(n, lastEmpty, p) ==
    [j \in 1..n |->
        APIResponse(j, n, PageLen * (j - 1),
                    IF j = n /\ lastEmpty THEN 0 ELSE PageLen, p)]

(* The page the remote source serves for a continuation cursor. *)
PageIndex(ps, cursor) ==
    IF cursor = "" THEN 1
    ELSE 1 + (CHOOSE j \in 1..Len(ps) : ps[j].next_page = cursor)

(* ---- the database ---- *)

SameKey(a, b) == a.ticker = b.ticker /\ a.time = b.time

(* A plain INSERT, without the ON CONFLICT clause. *)
UpsertRow_insertOnly(rows, r) == rows \cup {r}

(* INSERT ... ON CONFLICT (ticker, time) DO UPDATE SET <non-key> = EXCLUDED.<non-key> *)
UpsertRow(rows, r) ==
    IF \E x \in rows : SameKey(x, r)
    THEN {IF SameKey(x, r)
          THEN [x EXCEPT !.company = r.company,
                         !.brokerage = r.brokerage,
                         !.action = r.action,
                         !.rating_from = r.rating_from,
                         !.rating_to = r.rating_to,
                         !.target_from = r.target_from,
                         !.target_to = r.target_to]
          ELSE x : x \in rows}
    ELSE rows \cup {r}

RECURSIVE UpsertAll(_, _)
UpsertAll(rows, batch) ==
    IF batch = <<>> THEN rows
    ELSE UpsertAll(UpsertRow(rows, Head(batch)), Tail(batch))

HasDuplicateKey(batch) ==
    \E a, b \in 1..Len(batch) : a # b /\ SameKey(batch[a], batch[b])

(* Failures the database driver may report on begin, exec or commit. *)
DbFailures ==
    {[stage |-> "begin", msg |-> "bad connection"],
     [stage |-> "exec", msg |-> "deadlock detected"],
     [stage |-> "exec", msg |-> "syntax error"],
     [stage |-> "exec", msg |-> "broken pipe"],
     [stage |-> "commit", msg |-> "restart transaction"]}

(* What the database does with one transaction: it fails at a stage, or   *)
(* commits.  One multi-row upsert cannot touch the same key twice, and    *)
(* needs the table.                                                        *)
TxOutcomes(te, batch) ==
    DbFailures
    \cup (IF ~te
          THEN {[stage |-> "exec", msg |-> "relation \"stocks\" does not exist"]}
          ELSE IF HasDuplicateKey(batch)
          THEN {[stage |-> "exec",
                 msg |-> "ON CONFLICT DO UPDATE command cannot affect row a second time"]}
          ELSE {[stage |-> "ok", msg |-> ""]})

(* attemptTransaction without the rollback of a failed commit. *)
attemptTransaction_noRollback(rows, batch, o) ==
    IF o.stage = "begin"
    THEN [store |-> rows, err |-> <<"error iniciando transaccion: ", o.msg>>]
    ELSE IF o.stage = "exec"
    THEN [store |-> rows, err |-> <<"error ejecutando consulta: ", o.msg>>]
    ELSE IF o.stage = "commit"
    THEN [store |-> UpsertAll(rows, batch),
          err |-> <<"error confirmando transaccion: ", o.msg>>]
    ELSE [store |-> UpsertAll(rows, batch), err |-> NoErr]

(* attemptTransaction: begin, upsert every row of the batch, commit; the  *)
(* deferred Rollback discards the uncommitted work on every error path.   *)
attemptTransaction(rows, batch, o) ==
    IF o.stage = "begin"
    THEN [store |-> rows, err |-> <<"error iniciando transaccion: ", o.msg>>]
    ELSE LET txRows == UpsertAll(rows, batch)
         IN IF o.stage = "exec"
            THEN [store |-> rows, err |-> <<"error ejecutando consulta: ", o.msg>>]
            ELSE IF o.stage = "commit"
            THEN [store |-> rows, err |-> <<"error confirmando transaccion: ", o.msg>>]
            ELSE [store |-> txRows, err |-> NoErr]

(* ---- connection manager ---- *)

(* A handle as sqlx.Connect returns it, before the pool is configured. *)
FreshHandle ==
    [kind |-> "db", maxOpen |-> 0, maxIdle |-> 2, maxLifetime |-> 0, maxIdleTime |-> 0]

ConfiguredHandle ==
    [FreshHandle EXCEPT !.maxOpen = poolSize, !.maxIdle = poolSize,
                        !.maxLifetime = 5 * 60 * 1000, !.maxIdleTime = 60 * 1000]

(* A backoff that does not grow with the attempt. *)
ConnBackoff_flat(attempt, jitter) == 1000 + jitter

(* time.Duration(math.Pow(2, attempt-1) + float64(nanos%1000)/1000) * time.Second: *)
(* the conversion to Duration truncates before the multiplication.                 *)
ConnBackoff(attempt, jitter) ==
    ((Pow2(attempt - 1) * 1000 + jitter) \div 1000) * 1000

(* samples of time.Now().UnixNano() % 1000 *)
Jitters == {0, 500, 999}

(* What the environment does to one initDB call: the first `fails`        *)
(* connects fail (a sleep event lists the durations the clock allows);     *)
(* after a connect succeeds, `stage` is the statement that *)
(* fails ("ok": none).                                                     *)
InitOutcomes ==
    {[fails |-> k, stage |-> s] :
        k \in 0..(connMaxRetries - 1),
        s \in {"ping", "drop", "create", "index", "ok"}}
    \cup {[fails |-> connMaxRetries, stage |-> "connect"]}

(* The error sqlx.Connect reports at each attempt. *)
ConnectErrs ==
    <<"dial tcp: connection refused", "dial tcp: i/o timeout", "unexpected EOF",
      "server is not accepting clients", "too many clients already">>

(* The connect loop of initDB. *)
RECURSIVE ConnectLoop(_, _, _, _)
ConnectLoop(attempt, o, log, lastErr) ==
    IF attempt > connMaxRetries
    THEN [db |-> Nil, ok |-> FALSE, log |-> log, lastErr |-> lastErr]
    ELSE LET log1 == Append(log, [ev |-> "connect", n |-> attempt, ms |-> {}])
         IN IF attempt > o.fails
            THEN [db |-> FreshHandle, ok |-> TRUE, log |-> log1, lastErr |-> lastErr]
            ELSE IF attempt < connMaxRetries
            THEN ConnectLoop(attempt + 1, o,
                     Append(log1, [ev |-> "sleep", n |-> attempt,
                                   ms |-> {ConnBackoff(attempt, j) : j \in Jitters}]),
                     ConnectErrs[attempt])
            ELSE ConnectLoop(attempt + 1, o, log1, ConnectErrs[attempt])

(* A ping failure that returns after the pool was configured. *)
pingFailure_configured(h, te, rows, log) ==
    [db |-> ConfiguredHandle, tableExists |-> te, store |-> rows, log |-> log,
     err |-> <<"error verificando conexion a la base de datos: ", "ping failed">>]

(* initDB: the return at a failed db.Ping(); the global handle is the one *)
(* sqlx.Connect returned, the pool calls and the schema statements are    *)
(* not reached.                                                            *)
pingFailure(h, te, rows, log) ==
    [db |-> h, tableExists |-> te, store |-> rows, log |-> log,
     err |-> <<"error verificando conexion a la base de datos: ", "ping failed">>]

(* initDB on database state (te, rows): the new handle, the table and the *)
(* error returned.                                                         *)
initDB(te, rows, o) ==
    LET c == ConnectLoop(1, o, <<>>, "")
    IN IF ~c.ok
       THEN [db |-> c.db, tableExists |-> te, store |-> rows, log |-> c.log,
             err |-> <<"error conectando a la base de datos despues de 5 intentos: ",
                       c.lastErr>>]
       ELSE IF o.stage = "ping"
       THEN pingFailure(c.db, te, rows, c.log)
       ELSE IF o.stage = "drop"
       THEN [db |-> ConfiguredHandle, tableExists |-> te, store |-> rows, log |-> c.log,
             err |-> <<"error dropping existing table: ", "exec failed">>]
       ELSE IF o.stage = "create"
       THEN [db |-> ConfiguredHandle, tableExists |-> FALSE, store |-> {}, log |-> c.log,
             err |-> <<"error creando tabla stocks: ", "exec failed">>]
       ELSE IF o.stage = "index"
       THEN [db |-> ConfiguredHandle, tableExists |-> TRUE, store |-> {}, log |-> c.log,
             err |-> <<"error creando indice en ticker: ", "exec failed">>]
       ELSE [db |-> ConfiguredHandle, tableExists |-> TRUE, store |-> {}, log |-> c.log,
             err |-> NoErr]

(* What the environment does to one checkDBConnection call: the ping      *)
(* answers or not, and `init` is what happens to initDB if it is called.  *)
CheckOutcomes ==
    {[ping |-> TRUE, init |-> [fails |-> 0, stage |-> "ok"]]}
    \cup {[ping |-> FALSE, init |-> o] : o \in InitOutcomes}

(* A check that only tests for a missing handle and never pings. *)
checkDBConnection_nilOnly(d, te, rows, c) ==
    IF d = Nil
    THEN LET r == initDB(te, rows, c.init)
         IN [db |-> r.db, tableExists |-> r.tableExists, store |-> r.store,
             log |-> r.log, err |-> r.err, reinit |-> TRUE, initErr |-> r.err]
    ELSE [db |-> d, tableExists |-> te, store |-> rows, log |-> <<>>,
          err |-> NoErr, reinit |-> FALSE, initErr |-> NoErr]

(* checkDBConnection on handle d and database state (te, rows) *)
checkDBConnection(d, te, rows, c) ==
    IF d = Nil \/ ~c.ping
    THEN LET r == initDB(te, rows, c.init)
         IN [db |-> r.db, tableExists |-> r.tableExists, store |-> r.store,
             log |-> r.log, err |-> r.err, reinit |-> TRUE, initErr |-> r.err]
    ELSE [db |-> d, tableExists |-> te, store |-> rows, log |-> <<>>,
          err |-> NoErr, reinit |-> FALSE, initErr |-> NoErr]

(* cleanupResources: SetMaxIdleConns(0) then SetMaxIdleConns(25) on a live handle *)
cleanupResources(d) ==
    IF d # Nil
    THEN [[d EXCEPT !.maxIdle = 0] EXCEPT !.maxIdle = poolSize]
    ELSE d

(* ---- state ---- *)
VARIABLES
    pc,           \* position of main: start, initdb, initdb2, fetch, fetched, save,
                  \*   batch, attempt, txret, batchret, loopdone, exit
    exitCode,     \* -1 while running, then the process exit status
    panicked,     \* a nil-handle dereference was recovered by main
    apiKey,       \* DB_API_KEY is set
    pages,        \* the remote source
    db,           \* the process-wide handle
    tableExists,  \* database: the stocks table exists
    store,        \* database: rows of the stocks table
    initLog,      \* connects and sleeps of the initDB call of the last step
    initErr,      \* what the initDB call of the last step returned
    initRaw,      \* what the environment did to the initDB call of the last step
    lastCheck,    \* the checkDBConnection call of the last step
    replaced,     \* whether the initDB call of the last step overwrote a handle, and closed it
    recStocks,    \* API server: rows handed to processRecommendations
    recommendations, \* API server: what processRecommendations returned
    listReq,      \* API server: query parameters of a GET /api/stocks request
    listResp,     \* API server: what the GET /api/stocks handler answered
    nextPage,     \* fetchAllStocks: cursor of the next page call
    allStocks,    \* fetchAllStocks: records accumulated / returned to main
    fetchTry,     \* retryWithBackoff: i
    fetchLog,     \* requests and sleeps of the current fetchStocks call
    fetchErrs,    \* errors of the attempts of the current fetchStocks call
    fetchRes,     \* what fetchStocks returned
    requests,     \* cursors of the fetchStocks calls made so far
    idx,          \* saveStocks: i
    successCount,
    failedCount,
    results,      \* per processBatch call so far: TRUE iff it returned nil
    invoked,      \* batch numbers processBatch was called with, in order
    saveErr,      \* what saveStocks returned
    attempt,      \* processBatch: attempt
    lastErr,      \* processBatch: lastErr
    txErr,        \* what the last attemptTransaction returned
    txRaw,        \* what the database did to the last transaction
    txTimeout,    \* timeout of the context of the last transaction
    plainOnly,    \* every failure of this batch so far was a deadlock/restart message
    overwrote,    \* the last transaction committed over an existing, different row
    batchErr,     \* what processBatch returned
    batchLog      \* events of the current processBatch call

vars ==
    <<pc, exitCode, panicked, apiKey, pages, db, tableExists, store, initLog,
      initErr, initRaw, lastCheck, replaced, recStocks, recommendations,
      listReq, listResp,
      nextPage, allStocks, fetchTry, fetchLog, fetchErrs, fetchRes, requests,
      idx, successCount, failedCount, results, invoked, saveErr,
      attempt, lastErr, txErr, txRaw, txTimeout, plainOnly, overwrote, batchErr, batchLog>>

envVars == <<apiKey, pages>>
apiVars == <<recStocks, recommendations, listReq, listResp>>
dbVars == <<db, tableExists, store>>
fetchVars == <<nextPage, allStocks, fetchTry, fetchLog, fetchErrs, fetchRes, requests>>
saveVars == <<idx, successCount, failedCount, results, invoked, saveErr>>
batchVars ==
    <<attempt, lastErr, txErr, txRaw, txTimeout, plainOnly, overwrote, batchErr, batchLog>>

NoTx == [stage |-> "none", msg |-> ""]
NoInit == [fails |-> 0, stage |-> "none"]
NoCheck == [called |-> FALSE, handle |-> Nil, ping |-> FALSE, err |-> NoErr, cleaned |-> FALSE]
Checked(h, ping, err, cleaned) ==
    [called |-> TRUE, handle |-> h, ping |-> ping, err |-> err, cleaned |-> cleaned]
NoReplaced == [existed |-> FALSE, closed |-> FALSE]
Absent == [present |-> FALSE, text |-> <<>>]
Given(cs) == [present |-> TRUE, text |-> cs]
NoReq == [next |-> Absent, limit |-> Absent]
NoResp == [status |-> 0]

(* initDB: db, err = sqlx.Connect(...) overwrites the global handle h; no  *)
(* Close is called on it.                                                  *)
overwritten(h) == [existed |-> h # Nil, closed |-> FALSE]

InitQuiet ==
    /\ initLog' = <<>>
    /\ initErr' = NoErr
    /\ initRaw' = NoInit
    /\ lastCheck' = NoCheck
    /\ replaced' = NoReplaced
NoRes == [items |-> <<>>, next_page |-> "", err |-> NoErr]
Ev(e, k, t) == [ev |-> e, n |-> k, ms |-> t]

(* A row left in the table by an earlier run. *)
OldRow == [Stock(1, 26) EXCEPT !.company = 0]

Init ==
    /\ pc = "start"
    /\ exitCode = -1
    /\ panicked = FALSE
    /\ apiKey \in BOOLEAN
    /\ \E n \in 1..MaxPages, e \in BOOLEAN, p \in KeyPeriods :
          /\ p < batchSize => n = 1
          /\ pages = RemotePages(n, e, p)
    /\ db = Nil
    /\ tableExists \in BOOLEAN
    /\ store \in (IF tableExists THEN {{}, {OldRow}} ELSE {{}})
    /\ initLog = <<>>
    /\ initErr = NoErr
    /\ initRaw = NoInit
    /\ replaced = NoReplaced
    /\ lastCheck = NoCheck
    /\ recStocks = <<>>
    /\ recommendations = <<>>
    /\ listReq = NoReq
    /\ listResp = NoResp
    /\ nextPage = ""
    /\ allStocks = <<>>
    /\ fetchTry = 0
    /\ fetchLog = <<>>
    /\ fetchErrs = <<>>
    /\ fetchRes = NoRes
    /\ requests = <<>>
    /\ idx = 0
    /\ successCount = 0
    /\ failedCount = 0
    /\ results = <<>>
    /\ invoked = <<>>
    /\ saveErr = NoErr
    /\ attempt = 0
    /\ lastErr = NoErr
    /\ txErr = NoErr
    /\ txRaw = NoTx
    /\ txTimeout = 0
    /\ plainOnly = TRUE
    /\ overwrote = FALSE
    /\ batchErr = NoErr
    /\ batchLog = <<>>

Exit(code) ==
    /\ pc' = "exit"
    /\ exitCode' = code

(* ---- main ---- *)

(* A credential check that lets every value pass. *)
apiKeyMissing_never(key) == FALSE

(* main: apiKey == "" *)
apiKeyMissing(key) == ~key

(* main up to the credential check *)
MainCheckKey ==
    /\ pc = "start"
    /\ IF apiKeyMissing(apiKey)
       THEN Exit(1)
       ELSE pc' = "initdb" /\ exitCode' = exitCode
    /\ InitQuiet
    /\ UNCHANGED <<panicked, envVars, apiVars, dbVars, fetchVars, saveVars, batchVars>>

(* main: the first initDB *)
MainInitDB ==
    /\ pc = "initdb"
    /\ \E o \in InitOutcomes :
          LET r == initDB(tableExists, store, o)
          IN /\ db' = r.db
             /\ tableExists' = r.tableExists
             /\ store' = r.store
             /\ initLog' = r.log
             /\ initErr' = r.err
             /\ initRaw' = o
             /\ replaced' = overwritten(db)
             /\ lastCheck' = NoCheck
             /\ pc' = IF r.err = NoErr THEN "fetch" ELSE "initdb2"
    /\ UNCHANGED <<exitCode, panicked, envVars, apiVars, fetchVars, saveVars, batchVars>>

(* main: the second initDB, five seconds after the first failed *)
MainInitDBRetry ==
    /\ pc = "initdb2"
    /\ \E o \in InitOutcomes :
          LET r == initDB(tableExists, store, o)
          IN /\ db' = r.db
             /\ tableExists' = r.tableExists
             /\ store' = r.store
             /\ initLog' = r.log
             /\ initErr' = r.err
             /\ initRaw' = o
             /\ replaced' = overwritten(db)
             /\ lastCheck' = NoCheck
             /\ IF r.err = NoErr
                THEN pc' = "fetch" /\ exitCode' = exitCode
                ELSE Exit(1)
    /\ UNCHANGED <<panicked, envVars, apiVars, fetchVars, saveVars, batchVars>>

(* ---- paginated fetcher ---- *)

(* A wait that does not grow. *)
waitTime_constant(i) == 1000

(* retryWithBackoff: the wait after failed pass i (counted from 0) *)
waitTime(i) == Pow2(i) * 1000

(* Accumulation that puts the newest page first. *)
appendStocks_prepend(all, stocks) == stocks \o all

(* fetchAllStocks: allStocks = append(allStocks, stocks...) *)
appendStocks(all, stocks) == all \o stocks

(* A fetch-all that salvages the pages fetched before the failure. *)
fetchAllReturn_partial(all, err) == all

(* fetchAllStocks: what it hands to main when fetchStocks returned err *)
fetchAllReturn(all, err) == IF err # NoErr THEN <<>> ELSE all

FetchOutcomes == {"ok", "transport", "status", "decode"}

FetchErr(o) ==
    IF o = "nokey" THEN <<"DB_API_KEY environment variable is missing or empty">>
    ELSE IF o = "transport" THEN <<"error haciendo request: ", "transport">>
    ELSE IF o = "status" THEN <<"error de API: status code ", "500">>
    ELSE <<"error unmarshaling JSON: ", "decode">>

(* One pass of the loop of retryWithBackoff inside fetchStocks(nextPage):  *)
(* fn() is called once; fetchStocks returns when it succeeds or when the   *)
(* attempts are used up.                                                    *)
FetchAttempt ==
    /\ pc = "fetch"
    /\ \E env \in FetchOutcomes :
          LET o == IF apiKey THEN env ELSE "nokey"
              sent == IF apiKey THEN <<Ev("request", fetchTry + 1, 0)>> ELSE <<>>
              page == pages[PageIndex(pages, nextPage)]
          IN /\ requests' = IF fetchTry = 0 THEN Append(requests, nextPage) ELSE requests
             /\ IF o = "ok"
                THEN /\ fetchRes' = [items |-> page.items, next_page |-> page.next_page,
                                     err |-> NoErr]
                     /\ fetchLog' = fetchLog \o sent
                     /\ fetchErrs' = fetchErrs
                     /\ fetchTry' = fetchTry
                     /\ pc' = "fetched"
                ELSE /\ fetchErrs' = Append(fetchErrs, FetchErr(o))
                     /\ IF fetchTry = fetchAttempts - 1
                        THEN /\ fetchRes' = [items |-> <<>>, next_page |-> "",
                                             err |-> FetchErr(o)]
                             /\ fetchLog' = fetchLog \o sent
                             /\ fetchTry' = fetchTry
                             /\ pc' = "fetched"
                        ELSE /\ fetchRes' = fetchRes
                             /\ fetchLog' = fetchLog \o sent
                                   \o <<Ev("sleep", fetchTry + 1, waitTime(fetchTry))>>
                             /\ fetchTry' = fetchTry + 1
                             /\ pc' = "fetch"
    /\ InitQuiet
    /\ UNCHANGED <<exitCode, panicked, envVars, apiVars, dbVars, nextPage, allStocks,
                   saveVars, batchVars>>

(* A loop that stops after the first page. *)
noMorePages_always(next) == TRUE

(* fetchAllStocks: the test that ends the page loop *)
noMorePages(next) == next = ""

(* The loop body of fetchAllStocks after fetchStocks returned, and main's  *)
(* handling of what fetchAllStocks returns.                                 *)
FetchAllStep ==
    /\ pc = "fetched"
    /\ IF fetchRes.err # NoErr
       THEN /\ allStocks' = fetchAllReturn(allStocks, fetchRes.err)
            /\ Exit(1)
            /\ UNCHANGED <<nextPage, fetchTry, fetchLog, fetchErrs>>
       ELSE /\ allStocks' = appendStocks(allStocks, fetchRes.items)
            /\ exitCode' = exitCode
            /\ IF noMorePages(fetchRes.next_page)
               THEN /\ pc' = "save"
                    /\ UNCHANGED <<nextPage, fetchTry, fetchLog, fetchErrs>>
               ELSE /\ nextPage' = fetchRes.next_page
                    /\ fetchTry' = 0
                    /\ fetchLog' = <<>>
                    /\ fetchErrs' = <<>>
                    /\ pc' = "fetch"
    /\ InitQuiet
    /\ UNCHANGED <<panicked, envVars, apiVars, dbVars, fetchRes, requests, saveVars, batchVars>>

(* ---- batch upsert engine ---- *)

BatchEnd(i) == Min2(i + batchSize, Len(allStocks))
Batch(i) == SubSeq(allStocks, i + 1, BatchEnd(i))
BatchNo(i) == (i \div batchSize) + 1

(* processBatch: timeout of the context of a transaction attempt *)
txTimeoutOf(n) == 10 * n * 1000

(* A backoff that grows linearly. *)
backoff_linear(n) == n * 500

(* processBatch: backoff after failed attempt n *)
backoff(n) == Pow2(n - 1) * 500

(* A failure counter that counts batches instead of records. *)
failedAfter_perBatch(failed, err, n) == IF err # NoErr THEN failed + 1 ELSE failed

(* saveStocks: the two counters after a batch of n records returned err *)
failedAfter(failed, err, n) == IF err # NoErr THEN failed + n ELSE failed

successAfter(success, err, n) == IF err # NoErr THEN success ELSE success + n

LocalsCleared ==
    /\ attempt' = 0
    /\ lastErr' = NoErr
    /\ txErr' = NoErr
    /\ txRaw' = NoTx
    /\ txTimeout' = 0
    /\ plainOnly' = TRUE
    /\ overwrote' = FALSE
    /\ batchErr' = NoErr
    /\ batchLog' = <<>>

FetchLocalsCleared ==
    /\ fetchTry' = 0
    /\ fetchLog' = <<>>
    /\ fetchErrs' = <<>>
    /\ fetchRes' = NoRes

(* An emptiness test that never answers yes. *)
isEmpty_never(records) == FALSE

(* len(batch) == 0 in processBatch, len(stocks) == 0 in saveStocks *)
isEmpty(records) == Len(records) = 0

(* A test that lets every check result pass. *)
checkFailed_never(err) == FALSE

(* saveStocks: the test err != nil on the connection check at its start *)
checkFailed(err) == err # NoErr

(* saveStocks up to the batch loop, and main's handling of an early return *)
SaveStart ==
    /\ pc = "save"
    /\ IF isEmpty(allStocks)
       THEN /\ Exit(0)
            /\ saveErr' = NoErr
            /\ InitQuiet
            /\ UNCHANGED dbVars
       ELSE \E c \in CheckOutcomes :
               /\ db = Nil => ~c.ping
               /\ LET r == checkDBConnection(db, tableExists, store, c)
                  IN /\ db' = r.db
                     /\ tableExists' = r.tableExists
                     /\ store' = r.store
                     /\ initLog' = r.log
                     /\ initErr' = r.initErr
                     /\ initRaw' = IF r.reinit THEN c.init ELSE NoInit
                     /\ lastCheck' = Checked(db, c.ping, r.err, FALSE)
                     /\ replaced' = IF r.reinit THEN overwritten(db) ELSE NoReplaced
                     /\ IF checkFailed(r.err)
                        THEN /\ saveErr' = <<"error verificando conexion inicial: ">> \o r.err
                             /\ Exit(1)
                        ELSE /\ saveErr' = NoErr
                             /\ pc' = "batch"
                             /\ exitCode' = exitCode
    /\ FetchLocalsCleared
    /\ UNCHANGED <<panicked, envVars, apiVars, nextPage, allStocks, requests,
                   idx, successCount, failedCount, results, invoked, batchVars>>

(* processBatch(stocks[i:end]) up to the retry loop *)
BatchStart ==
    /\ pc = "batch"
    /\ IF isEmpty(Batch(idx))
       THEN /\ batchErr' = NoErr
            /\ attempt' = 0
            /\ batchLog' = <<>>
            /\ pc' = "batchret"
            /\ InitQuiet
            /\ UNCHANGED dbVars
       ELSE \E c \in CheckOutcomes :
          /\ db = Nil => ~c.ping
          /\ LET r == checkDBConnection(db, tableExists, store, c)
                 log == <<Ev("check", 0, 0)>>
                           \o (IF r.reinit THEN <<Ev("initDB", 0, 0)>> ELSE <<>>)
             IN /\ db' = r.db
                /\ tableExists' = r.tableExists
                /\ store' = r.store
                /\ initLog' = r.log
                /\ initErr' = r.initErr
                /\ initRaw' = IF r.reinit THEN c.init ELSE NoInit
                /\ lastCheck' = Checked(db, c.ping, r.err, FALSE)
                /\ replaced' = IF r.reinit THEN overwritten(db) ELSE NoReplaced
                /\ batchLog' = log
                /\ IF r.err # NoErr
                   THEN /\ batchErr' =
                              <<"error verificando conexion a la base de datos: ">> \o r.err
                        /\ attempt' = 0
                        /\ pc' = "batchret"
                   ELSE /\ batchErr' = NoErr
                        /\ attempt' = 1
                        /\ pc' = "attempt"
    /\ invoked' = Append(invoked, BatchNo(idx))
    /\ UNCHANGED <<exitCode, panicked, envVars, apiVars, fetchVars, idx, successCount,
                   failedCount, results, saveErr, lastErr, txErr, txRaw, txTimeout,
                   plainOnly, overwrote>>

PlainRetryMsgs == {"deadlock detected", "restart transaction"}

(* One attemptTransaction(ctx, batch) call of the retry loop; a nil handle *)
(* panics in db.BeginTxx and main's deferred recover exits with status 1.  *)
AttemptTx ==
    /\ pc = "attempt"
    /\ IF db = Nil
       THEN /\ panicked' = TRUE
            /\ Exit(1)
            /\ UNCHANGED <<store, txErr, txRaw, txTimeout, plainOnly, overwrote, batchLog>>
       ELSE \E o \in TxOutcomes(tableExists, Batch(idx)) :
               LET r == attemptTransaction(store, Batch(idx), o)
               IN /\ store' = r.store
                  /\ txErr' = r.err
                  /\ txRaw' = o
                  /\ txTimeout' = txTimeoutOf(attempt)
                  /\ plainOnly' = (plainOnly /\ (o.stage = "ok" \/ o.msg \in PlainRetryMsgs))
                  /\ overwrote' = (/\ o.stage = "ok"
                                   /\ \E x \in store : \E k \in 1..Len(Batch(idx)) :
                                         SameKey(x, Batch(idx)[k]) /\ x # Batch(idx)[k])
                  /\ batchLog' = Append(batchLog, Ev("tx", attempt, txTimeoutOf(attempt)))
                  /\ pc' = "txret"
                  /\ UNCHANGED <<exitCode, panicked>>
    /\ InitQuiet
    /\ UNCHANGED <<envVars, apiVars, db, tableExists, fetchVars, saveVars, attempt, lastErr, batchErr>>

(* A success test that never answers yes. *)
txSucceeded_never(err) == FALSE

(* processBatch: the test err == nil after attemptTransaction *)
txSucceeded(err) == err = NoErr

(* The retry loop of processBatch after attemptTransaction returned. *)
HandleTx ==
    /\ pc = "txret"
    /\ IF txSucceeded(txErr)
       THEN /\ batchErr' = NoErr
            /\ pc' = "batchret"
            /\ InitQuiet
            /\ UNCHANGED <<dbVars, attempt, lastErr, batchLog>>
       ELSE /\ lastErr' = txErr
            /\ IF attempt < maxRetries /\ isRetryableError(txErr)
               THEN /\ IF isConnectionError(txErr)
                       THEN \E o \in InitOutcomes :
                               LET r == initDB(tableExists, store, o)
                               IN /\ db' = r.db
                                  /\ tableExists' = r.tableExists
                                  /\ store' = r.store
                                  /\ initLog' = r.log
                                  /\ initErr' = r.err
                                  /\ initRaw' = o
                                  /\ replaced' = overwritten(db)
                                  /\ lastCheck' = NoCheck
                                  /\ batchLog' = batchLog \o
                                        <<Ev("initDB", attempt, 0),
                                          Ev("sleep", attempt, backoff(attempt))>>
                       ELSE /\ InitQuiet
                            /\ batchLog' = Append(batchLog,
                                              Ev("sleep", attempt, backoff(attempt)))
                            /\ UNCHANGED dbVars
                    /\ attempt' = attempt + 1
                    /\ batchErr' = batchErr
                    /\ pc' = "attempt"
               ELSE /\ batchErr' =
                          <<"error insertando stocks despues de 5 intentos: ">> \o txErr
                    /\ pc' = "batchret"
                    /\ InitQuiet
                    /\ UNCHANGED <<dbVars, attempt, batchLog>>
    /\ UNCHANGED <<exitCode, panicked, envVars, apiVars, fetchVars, saveVars,
                   txErr, txRaw, txTimeout, plainOnly, overwrote>>

(* ---- sync orchestrator ---- *)

(* A loop step that starts the next batch one record early. *)
nextIdx_overlap(i) == i + batchSize - 1

(* saveStocks: the step i += batchSize of the batch loop *)
nextIdx(i) == i + batchSize

(* The loop body of saveStocks after processBatch returned: accounting,    *)
(* the pause, the periodic cleanup and connection check, the loop step.    *)
BatchReturn ==
    /\ pc = "batchret"
    /\ LET end == BatchEnd(idx)
           n == end - idx
       IN /\ failedCount' = failedAfter(failedCount, batchErr, n)
          /\ successCount' = successAfter(successCount, batchErr, n)
          /\ results' = Append(results, batchErr = NoErr)
          /\ IF end < Len(allStocks) /\ (idx \div batchSize) % cleanupEvery = 0
             THEN \E c \in CheckOutcomes :
                     /\ db = Nil => ~c.ping
                     /\ LET r == checkDBConnection(cleanupResources(db),
                                                   tableExists, store, c)
                        IN /\ db' = r.db
                           /\ tableExists' = r.tableExists
                           /\ store' = r.store
                           /\ initLog' = r.log
                           /\ initErr' = r.initErr
                           /\ initRaw' = IF r.reinit THEN c.init ELSE NoInit
                           /\ lastCheck' = Checked(cleanupResources(db), c.ping, r.err, TRUE)
                           /\ replaced' = IF r.reinit THEN overwritten(cleanupResources(db)) ELSE NoReplaced
             ELSE /\ InitQuiet
                  /\ UNCHANGED dbVars
          /\ idx' = nextIdx(idx)
          /\ pc' = IF nextIdx(idx) < Len(allStocks) THEN "batch" ELSE "loopdone"
    /\ LocalsCleared
    /\ UNCHANGED <<exitCode, panicked, envVars, apiVars, fetchVars, invoked, saveErr>>

(* A saveStocks that reports success whatever failed. *)
saveResult_ignore(failed) == NoErr

(* saveStocks: the error it returns after the loop *)
saveResult(failed) ==
    IF failed > 0 THEN <<"hubo errores al guardar stocks">> ELSE NoErr

(* The end of saveStocks and main's handling of what it returns. *)
SaveFinish ==
    /\ pc = "loopdone"
    /\ saveErr' = saveResult(failedCount)
    /\ IF saveResult(failedCount) # NoErr
       THEN Exit(1)
       ELSE Exit(0)
    /\ InitQuiet
    /\ UNCHANGED <<panicked, envVars, apiVars, dbVars, fetchVars, idx, successCount,
                   failedCount, results, invoked, batchVars>>

Next ==
    \/ MainCheckKey
    \/ MainInitDB
    \/ MainInitDBRetry
    \/ FetchAttempt
    \/ FetchAllStep
    \/ SaveStart
    \/ BatchStart
    \/ AttemptTx
    \/ HandleTx
    \/ BatchReturn
    \/ SaveFinish

Spec == Init /\ [][Next]_vars

(* ---- properties ---- *)

NumBatches == (Len(allStocks) + batchSize - 1) \div batchSize
SizeOfBatch(j) == Min2(batchSize, Len(allStocks) - (j - 1) * batchSize)
RecordsOfBatch(j) ==
    {allStocks[k] : k \in ((j - 1) * batchSize + 1)..Min2(j * batchSize, Len(allStocks))}

RECURSIVE SumSizes(_)
SumSizes(js) ==
    IF js = {} THEN 0
    ELSE LET j == CHOOSE x \in js : TRUE
         IN SizeOfBatch(j) + SumSizes(js \ {j})

IsPrefix(a, b) == Len(a) <= Len(b) /\ \A k \in 1..Len(a) : a[k] = b[k]

RECURSIVE ConcatItems(_, _)
ConcatItems(ps, k) ==
    IF k = 0 THEN <<>> ELSE ConcatItems(ps, k - 1) \o ps[k].items

(* The error attemptTransaction reports for what the database did. *)
ReportedErr(o) ==
    <<CASE o.stage = "begin" -> "error iniciando transaccion: "
        [] o.stage = "exec" -> "error ejecutando consulta: "
        [] OTHER -> "error confirmando transaccion: ",
      o.msg>>

IsTxOrSleep(e) == e.ev \in {"tx", "sleep"}

(* C1: a committed transaction leaves, for every record of its batch,      *)
(* exactly one row with that (ticker, time), equal to the record (so a     *)
(* record committed over an earlier one with the same key overwrites its   *)
(* non-key fields), and leaves the rows with other keys as they were.      *)
C1_UpsertOverwrites ==
    [][(pc = "attempt" /\ pc' = "txret" /\ txErr' = NoErr) =>
         LET batch == Batch(idx)
             inBatch(x) == \E k \in 1..Len(batch) : SameKey(x, batch[k])
         IN /\ \A k \in 1..Len(batch) :
                  {x \in store' : SameKey(x, batch[k])} = {batch[k]}
            /\ \A x \in store \cup store' :
                  ~inBatch(x) => (x \in store <=> x \in store')
            /\ \A x, y \in store' : SameKey(x, y) => x = y]_vars

C1_Witness == pc = "txret" /\ txErr = NoErr /\ overwrote

(* C2: a transaction attempt is all-or-nothing: when it returns nil every  *)
(* record of the batch is in the store, when it returns an error (begin,   *)
(* exec or commit) the store is what it was before the attempt.            *)
C2_AllOrNothing ==
    [][(pc = "attempt" /\ pc' = "txret") =>
         IF txErr' = NoErr
         THEN \A k \in 1..Len(Batch(idx)) : Batch(idx)[k] \in store'
         ELSE store' = store]_vars

C2_Witness ==
    /\ pc = "txret"
    /\ txRaw.stage = "commit"
    /\ txErr # NoErr
    /\ successCount > 0
    /\ store # {}

(* C3: the page calls carry the empty cursor first and then the cursor of  *)
(* the previous page, none follows the page with the empty cursor, and     *)
(* when every page call succeeded fetch-all returns the records of the     *)
(* pages concatenated in page order.                                       *)
ExpectedRequests ==
    [j \in 1..Len(pages) |-> IF j = 1 THEN "" ELSE pages[j - 1].next_page]

C3_Pagination ==
    /\ IsPrefix(requests, ExpectedRequests)
    /\ pc \in {"save", "batch", "attempt", "txret", "batchret", "loopdone"} =>
          /\ requests = ExpectedRequests
          /\ allStocks = ConcatItems(pages, Len(pages))

C3_Witness ==
    /\ pc = "save"
    /\ Len(pages) = 3
    /\ Len(requests) = 3
    /\ Len(allStocks) = 3 * PageLen

(* C4: one page call makes at most 3 attempts, sleeps 1s after the first   *)
(* failure and 2s after the second, stops at the first success with that   *)
(* attempt's records and cursor, and after 3 failures returns the third    *)
(* error and no records without sleeping again.                            *)
ExpectedFetchLog(failures, returned) ==
    LET evs == [k \in 1..(2 * failures + 1) |->
                   IF k % 2 = 1
                   THEN Ev("request", (k + 1) \div 2, 0)
                   ELSE Ev("sleep", k \div 2, Pow2(k \div 2 - 1) * 1000)]
    IN IF returned /\ failures = fetchAttempts
       THEN SubSeq(evs, 1, 2 * failures - 1)
       ELSE IF returned THEN evs
       ELSE SubSeq(evs, 1, 2 * failures)

C4_FetchRetry ==
    /\ pc = "fetch" =>
          /\ Len(fetchErrs) = fetchTry
          /\ fetchTry < fetchAttempts
          /\ fetchLog = ExpectedFetchLog(fetchTry, FALSE)
    /\ pc = "fetched" =>
          /\ Len(fetchErrs) <= fetchAttempts
          /\ fetchLog = ExpectedFetchLog(Len(fetchErrs), TRUE)
          /\ IF fetchRes.err = NoErr
             THEN /\ Len(fetchErrs) < fetchAttempts
                  /\ fetchRes.items = pages[PageIndex(pages, nextPage)].items
                  /\ fetchRes.next_page = pages[PageIndex(pages, nextPage)].next_page
             ELSE /\ Len(fetchErrs) = fetchAttempts
                  /\ fetchRes.err = fetchErrs[fetchAttempts]
                  /\ fetchRes.items = <<>>

C4_Witness ==
    /\ pc = "fetched"
    /\ Len(fetchErrs) = 2
    /\ fetchRes.err = NoErr
    /\ fetchRes.items # <<>>

(* C5: a batch whose every transaction attempt fails with a retryable,     *)
(* non-connection error gets exactly 5 attempts with timeouts 10s..50s,    *)
(* backoffs of 500ms, 1s, 2s, 4s after attempts 1..4, none after attempt   *)
(* 5, and fails with the error of attempt 5.                               *)
ExpectedSchedule ==
    [k \in 1..9 |->
        IF k % 2 = 1
        THEN Ev("tx", (k + 1) \div 2, 10000 * ((k + 1) \div 2))
        ELSE Ev("sleep", k \div 2, Pow2(k \div 2 - 1) * 500)]

C5_RetrySchedule ==
    (pc = "batchret" /\ attempt >= 1 /\ plainOnly /\ txErr # NoErr) =>
        /\ attempt = 5
        /\ SelectSeq(batchLog, IsTxOrSleep) = ExpectedSchedule
        /\ \A k \in 1..Len(batchLog) : batchLog[k].ev = "initDB" => batchLog[k].n = 0
        /\ txTimeout = 50000
        /\ batchErr = <<"error insertando stocks despues de 5 intentos: ">>
                         \o ReportedErr(txRaw)

C5_Witness ==
    pc = "batchret" /\ attempt = 5 /\ plainOnly /\ txErr # NoErr /\ Len(results) = 1

(* C6: a transaction attempt that fails with a non-retryable error ends    *)
(* the batch at once: processBatch returns that error, and neither a       *)
(* reconnect nor a backoff nor another attempt follows the attempt.        *)
NonRetryableMsgs ==
    {"syntax error", "broken pipe", "relation \"stocks\" does not exist",
     "ON CONFLICT DO UPDATE command cannot affect row a second time"}

C6_NonRetryable ==
    txRaw.msg \in NonRetryableMsgs =>
        /\ pc \in {"txret", "batchret"}
        /\ batchLog[Len(batchLog)] = Ev("tx", attempt, 10000 * attempt)
        /\ pc = "batchret" =>
              batchErr = <<"error insertando stocks despues de 5 intentos: ">>
                            \o ReportedErr(txRaw)

C6_Witness ==
    pc = "batchret" /\ txRaw.msg = "syntax error" /\ attempt = 1 /\ batchErr # NoErr

(* C7: when the batch loop of saveStocks ends, the success count is the    *)
(* total size of the batches that succeeded, the failure count the total   *)
(* size of those that failed, together they are the number of input        *)
(* records, and saveStocks returns an error iff the failure count is > 0.  *)
C7_Accounting ==
    (Len(results) = NumBatches /\ NumBatches > 0 /\ pc \in {"loopdone", "exit"}) =>
        /\ successCount = SumSizes({j \in 1..NumBatches : results[j]})
        /\ failedCount = SumSizes({j \in 1..NumBatches : ~results[j]})
        /\ successCount + failedCount = Len(allStocks)
        /\ pc = "exit" => ((saveErr # NoErr) <=> (failedCount > 0))

C7_Witness ==
    pc = "exit" /\ results = <<TRUE, FALSE, TRUE>> /\ saveErr # NoErr

(* C8: at the end of the batch loop every record of a batch counted as     *)
(* success has its row in the store.                                       *)
C8_PartialDurability ==
    pc = "loopdone" =>
        \A j \in 1..Len(results) :
            results[j] => \A r \in RecordsOfBatch(j) : \E x \in store : SameKey(x, r)

(* C9: when a page call fails, fetch-all returns the error and no record,  *)
(* no further page is requested, and the run ends with status 1 without    *)
(* processBatch or a transaction having run.                               *)
C9_FetchAborts ==
    fetchRes.err # NoErr =>
        /\ pc \in {"fetched", "exit"}
        /\ fetchRes.items = <<>>
        /\ IsPrefix(requests, ExpectedRequests)
        /\ invoked = <<>> /\ results = <<>> /\ txRaw = NoTx /\ store = {}
        /\ pc = "exit" => (allStocks = <<>> /\ exitCode = 1)

C9_Witness ==
    pc = "exit" /\ fetchRes.err # NoErr /\ Len(requests) = 2

(* C10: in a run that entered the batch loop, when the process ends        *)
(* processBatch has been called exactly once for every batch, in order.    *)
C10_BatchIsolation ==
    (pc = "exit" /\ Len(invoked) > 0) => invoked = [j \in 1..NumBatches |-> j]

InitBatch ==
    /\ pc \in {"save", "batch"}
    /\ exitCode = -1
    /\ panicked = FALSE
    /\ apiKey = TRUE
    /\ \E p \in KeyPeriods : pages = RemotePages(1, FALSE, p)
    /\ allStocks \in {<<>>, pages[1].items}
    /\ db \in {Nil, ConfiguredHandle}
    /\ tableExists \in BOOLEAN
    /\ store \in (IF tableExists THEN {{}, {OldRow}} ELSE {{}})
    /\ initLog = <<>>
    /\ initErr = NoErr
    /\ initRaw = NoInit
    /\ replaced = NoReplaced
    /\ lastCheck = NoCheck
    /\ recStocks = <<>>
    /\ recommendations = <<>>
    /\ listReq = NoReq
    /\ listResp = NoResp
    /\ nextPage = ""
    /\ fetchTry = 0
    /\ fetchLog = <<>>
    /\ fetchErrs = <<>>
    /\ fetchRes = NoRes
    /\ requests = <<>>
    /\ idx = 0
    /\ successCount = 0
    /\ failedCount = 0
    /\ results = <<>>
    /\ invoked = <<>>
    /\ saveErr = NoErr
    /\ attempt = 0
    /\ lastErr = NoErr
    /\ txErr = NoErr
    /\ txRaw = NoTx
    /\ txTimeout = 0
    /\ plainOnly = TRUE
    /\ overwrote = FALSE
    /\ batchErr = NoErr
    /\ batchLog = <<>>

NextBatch ==
    \/ SaveStart
    \/ BatchStart
    \/ AttemptTx
    \/ HandleTx
    \/ BatchReturn
    \/ SaveFinish

SpecBatch == InitBatch /\ [][NextBatch]_vars

(* C12: processBatch on an empty batch and saveStocks on an empty record   *)
(* set return success at once: no connection check, no initDB, no          *)
(* transaction, no sleep, and the handle, the table and its rows stay as   *)
(* they were.                                                              *)
C12_EmptyNoOp ==
    [][/\ (pc = "save" /\ Len(allStocks) = 0) =>
             /\ pc' = "exit" /\ exitCode' = 0 /\ saveErr' = NoErr
             /\ lastCheck' = NoCheck /\ initLog' = <<>>
             /\ UNCHANGED <<dbVars, invoked, results, batchLog, txRaw>>
       /\ (pc = "batch" /\ Len(Batch(idx)) = 0) =>
             /\ pc' = "batchret" /\ batchErr' = NoErr
             /\ lastCheck' = NoCheck /\ initLog' = <<>>
             /\ batchLog' = <<>>
             /\ UNCHANGED <<dbVars, txRaw, attempt>>]_vars

C12_Witness ==
    /\ pc = "batchret"
    /\ Len(allStocks) = 0
    /\ invoked = <<1>>
    /\ batchErr = NoErr
    /\ batchLog = <<>>
    /\ lastCheck = NoCheck

(* C13: when the credential is absent main exits with status 1 at its      *)
(* first step, before any initDB call, fetch request or batch, and the     *)
(* handle, the table and its rows are untouched.                           *)
C13_MissingKeyAborts ==
    [][~apiKey =>
          /\ pc = "start" /\ pc' = "exit" /\ exitCode' = 1
          /\ initLog' = <<>> /\ initRaw' = NoInit
          /\ UNCHANGED <<dbVars, requests, fetchLog, invoked>>]_vars

C13_Witness ==
    /\ pc = "exit" /\ ~apiKey /\ exitCode = 1
    /\ db = Nil /\ store = {OldRow} /\ requests = <<>> /\ invoked = <<>>

(* C14: the run ends with status 0 exactly when the credential was         *)
(* present, the database was initialized, every page was fetched and every *)
(* batch ended in Success; otherwise it ends with status 1.                *)
C14_ExitStatus ==
    pc = "exit" =>
        /\ exitCode \in {0, 1}
        /\ exitCode = 0 <=>
              /\ apiKey
              /\ ~panicked
              /\ db # Nil /\ tableExists
              /\ requests = ExpectedRequests
              /\ fetchRes.err = NoErr
              /\ allStocks = ConcatItems(pages, Len(pages))
              /\ saveErr = NoErr
              /\ Len(results) = NumBatches
              /\ \A j \in 1..Len(results) : results[j]

C14_Witness ==
    /\ pc = "exit" /\ exitCode = 0
    /\ Len(results) = 3 /\ successCount = Len(allStocks)

(* fetchAllStocks called directly, with or without the credential in the   *)
(* environment.                                                            *)
InitFetch ==
    /\ pc = "fetch"
    /\ exitCode = -1
    /\ panicked = FALSE
    /\ apiKey \in BOOLEAN
    /\ \E n \in 1..MaxPages, e \in BOOLEAN, p \in KeyPeriods :
          /\ p < batchSize => n = 1
          /\ pages = RemotePages(n, e, p)
    /\ db = Nil
    /\ tableExists \in BOOLEAN
    /\ store \in (IF tableExists THEN {{}, {OldRow}} ELSE {{}})
    /\ initLog = <<>>
    /\ initErr = NoErr
    /\ initRaw = NoInit
    /\ replaced = NoReplaced
    /\ lastCheck = NoCheck
    /\ recStocks = <<>>
    /\ recommendations = <<>>
    /\ listReq = NoReq
    /\ listResp = NoResp
    /\ nextPage = ""
    /\ allStocks = <<>>
    /\ fetchTry = 0
    /\ fetchLog = <<>>
    /\ fetchErrs = <<>>
    /\ fetchRes = NoRes
    /\ requests = <<>>
    /\ idx = 0
    /\ successCount = 0
    /\ failedCount = 0
    /\ results = <<>>
    /\ invoked = <<>>
    /\ saveErr = NoErr
    /\ attempt = 0
    /\ lastErr = NoErr
    /\ txErr = NoErr
    /\ txRaw = NoTx
    /\ txTimeout = 0
    /\ plainOnly = TRUE
    /\ overwrote = FALSE
    /\ batchErr = NoErr
    /\ batchLog = <<>>

NextFetch ==
    \/ FetchAttempt
    \/ FetchAllStep

SpecFetch == InitFetch /\ [][NextFetch]_vars

C16_CheckReinit ==
    [][lastCheck'.called =>
          LET h == lastCheck'.handle
              needed == h = Nil \/ ~lastCheck'.ping
          IN /\ needed <=> initRaw' # NoInit
             /\ needed => /\ initLog' # <<>>
                          /\ lastCheck'.err = initErr'
             /\ ~needed => /\ lastCheck'.err = NoErr
                           /\ initLog' = <<>>
                           /\ db' = h
                           /\ tableExists' = tableExists
                           /\ store' = store]_vars

C16_Witness ==
    /\ lastCheck.called
    /\ lastCheck.handle = ConfiguredHandle
    /\ ~lastCheck.ping
    /\ initRaw.stage = "drop"
    /\ lastCheck.err = <<"error dropping existing table: ", "exec failed">>

(* C17: a successful initDB leaves the stocks table in place and every row *)
(* that was in it before the call is still in it.                          *)
C17_CreateIfAbsent ==
    [][(initRaw' # NoInit /\ initErr' = NoErr) =>
          (tableExists' /\ store \subseteq store')]_vars

(* C18: when the ping after a successful connect fails, initDB returns the *)
(* connection error, the handle is left with the pool parameters           *)
(* unconfigured and no schema statement runs: table and rows are as before.*)
C18_PingFailure ==
    [][initRaw'.stage = "ping" =>
          /\ initErr' = <<"error verificando conexion a la base de datos: ", "ping failed">>
          /\ db' = FreshHandle
          /\ tableExists' = tableExists
          /\ store' = store]_vars

C18_Witness ==
    /\ initRaw.stage = "ping"
    /\ initErr # NoErr
    /\ db = FreshHandle
    /\ store = {OldRow}

(* C19: after every successful initDB and after every cleanupResources the *)
(* handle has max open = max idle = 25, and no transaction attempt or      *)
(* connection check sees max idle 0.                                       *)
C19_PoolBounds ==
    /\ (initRaw # NoInit /\ initErr = NoErr) =>
          (db # Nil /\ db.maxOpen = poolSize /\ db.maxIdle = poolSize)
    /\ (lastCheck.called /\ lastCheck.cleaned /\ lastCheck.handle # Nil) =>
          (lastCheck.handle.maxOpen = poolSize /\ lastCheck.handle.maxIdle = poolSize)
    /\ (pc \in {"attempt", "save", "batch"} /\ db # Nil) => db.maxIdle # 0

(* ---- recommendation scoring of the API server (src/main.go) ---- *)

(* Bounds of the recommendation inputs. *)
MaxRecs == 3

(* The text of the actions and timestamps, character by character. *)
Runes(s) ==
    CASE
      s = "upgraded" ->
        <<"u", "p", "g", "r", "a", "d", "e", "d">>
   []
      s = "initiated" ->
        <<"i", "n", "i", "t", "i", "a", "t", "e", "d">>
   []
      s = "reiterated" ->
        <<"r", "e", "i", "t", "e", "r", "a", "t", "e", "d">>
   []
      s = "upgraded by" ->
        <<"u", "p", "g", "r", "a", "d", "e", "d", " ", "b", "y">>
   []
      s = "initiated by" ->
        <<"i", "n", "i", "t", "i", "a", "t", "e", "d", " ", "b", "y">>
   []
      s = "reiterated by" ->
        <<"r", "e", "i", "t", "e", "r", "a", "t", "e", "d", " ", "b", "y">>
   []
      s = "downgraded by" ->
        <<"d", "o", "w", "n", "g", "r", "a", "d", "e", "d", " ", "b", "y">>
   []
      s = "target raised by" ->
        <<"t", "a", "r", "g", "e", "t", " ", "r", "a", "i", "s", "e", "d", " ", "b", "y">>
   []
      s = "2025-06-01T12:00:00Z" ->
        <<"2", "0", "2", "5", "-", "0", "6", "-", "0", "1", "T", "1", "2", ":", "0", "0", ":", "0", "0", "Z">>
   []
      s = "2025-05-28T07:30:00-05:00" ->
        <<"2", "0", "2", "5", "-", "0", "5", "-", "2", "8", "T", "0", "7", ":", "3", "0", ":", "0", "0", "-", "0", "5", ":", "0", "0">>
   []
      s = "2025-06-01T12:00:00.5Z" ->
        <<"2", "0", "2", "5", "-", "0", "6", "-", "0", "1", "T", "1", "2", ":", "0", "0", ":", "0", "0", ".", "5", "Z">>
   []
      s = "2025-06-01 12:00:00" ->
        <<"2", "0", "2", "5", "-", "0", "6", "-", "0", "1", " ", "1", "2", ":", "0", "0", ":", "0", "0">>
   []
      s = "2025-02-30T10:00:00Z" ->
        <<"2", "0", "2", "5", "-", "0", "2", "-", "3", "0", "T", "1", "0", ":", "0", "0", ":", "0", "0", "Z">>
   []
      s = "" ->
        <<>>

(* strings.Contains *)
stringsContains(s, substr) ==
    \E k \in 0..(Len(s) - Len(substr)) :
        \A j \in 1..Len(substr) : s[k + j] = substr[j]

DigitVal ==
    ("0" :> 0) @@ ("1" :> 1) @@ ("2" :> 2) @@ ("3" :> 3) @@ ("4" :> 4) @@
    ("5" :> 5) @@ ("6" :> 6) @@ ("7" :> 7) @@ ("8" :> 8) @@ ("9" :> 9)

IsDigits(cs, from, to) == \A k \in from..to : cs[k] \in DOMAIN DigitVal

Num2(cs, k) == DigitVal[cs[k]] * 10 + DigitVal[cs[k + 1]]

DaysIn(year, month) ==
    IF month \in {4, 6, 9, 11} THEN 30
    ELSE IF month # 2 THEN 31
    ELSE IF year % 4 = 0 /\ (year % 100 # 0 \/ year % 400 = 0) THEN 29
    ELSE 28

(* The zone of an RFC3339 time: Z or a numeric offset. *)
IsZone(z) ==
    \/ z = <<"Z">>
    \/ /\ Len(z) = 6
       /\ z[1] \in {"+", "-"}
       /\ IsDigits(z, 2, 3) /\ z[4] = ":" /\ IsDigits(z, 5, 6)
       /\ Num2(z, 2) <= 23 /\ Num2(z, 5) <= 59

(* The number of leading digits of cs. *)
RECURSIVE LeadingDigits(_)
LeadingDigits(cs) ==
    IF cs # <<>> /\ Head(cs) \in DOMAIN DigitVal THEN 1 + LeadingDigits(Tail(cs)) ELSE 0

(* Whether time.Parse(time.RFC3339, s) succeeds on the characters cs:     *)
(* 2006-01-02T15:04:05 with fields in range, optional fractional seconds, *)
(* then the zone.                                                          *)
ParsesRFC3339(cs) ==
    /\ Len(cs) >= 20
    /\ IsDigits(cs, 1, 4) /\ cs[5] = "-" /\ IsDigits(cs, 6, 7) /\ cs[8] = "-"
    /\ IsDigits(cs, 9, 10) /\ cs[11] = "T"
    /\ IsDigits(cs, 12, 13) /\ cs[14] = ":" /\ IsDigits(cs, 15, 16) /\ cs[17] = ":"
    /\ IsDigits(cs, 18, 19)
    /\ LET year == Num2(cs, 1) * 100 + Num2(cs, 3)
           month == Num2(cs, 6)
           day == Num2(cs, 9)
           rest == SubSeq(cs, 20, Len(cs))
       IN /\ month \in 1..12
          /\ day \in 1..DaysIn(year, month)
          /\ Num2(cs, 12) <= 23 /\ Num2(cs, 15) <= 59 /\ Num2(cs, 18) <= 59
          /\ IF Head(rest) = "."
             THEN LET f == LeadingDigits(Tail(rest))
                  IN f >= 1 /\ IsZone(SubSeq(rest, f + 2, Len(rest)))
             ELSE IsZone(rest)

(* Scores are kept in thousandths. *)
ScoreScale == 1000

(* Division that rounds toward zero. *)
Quot(a, b) == IF a >= 0 THEN a \div b ELSE -((-a) \div b)

(* ratingValues[r]; a missing key reads as 0 *)
ratingValues(r) ==
    CASE r = "Sell" -> 0
      [] r = "Underweight" -> 1
      [] r = "Neutral" -> 2
      [] r = "Market Perform" -> 2
      [] r = "Buy" -> 3
      [] r = "Outperform" -> 3
      [] r = "Strong Buy" -> 4
      [] OTHER -> 0

(* brokerageReputation[b] in thousandths; a missing key reads as 0 *)
brokerageReputation(b) ==
    CASE b = "The Goldman Sachs Group" -> 1200
      [] b = "Morgan Stanley" -> 1100
      [] b = "JPMorgan Chase & Co." -> 1150
      [] b = "Citigroup" -> 1050
      [] b = "Benchmark" -> 1000
      [] b = "Needham & Company LLC" -> 950
      [] b = "Wedbush" -> 980
      [] b = "Truist Financial" -> 970
      [] b = "Other" -> 900
      [] OTHER -> 0

(* calculateStockScore(stock, lastUpdated), with `hours` what               *)
(* time.Since(lastUpdated).Hours() reads when the record is scored.         *)
calculateStockScore(stock, hours) ==
    LET ratingScore ==
            (ratingValues(stock.rating_to) - ratingValues(stock.rating_from)) * 20 * ScoreScale
        targetChangeScore ==
            IF stock.target_from > 0
            THEN Quot(Quot((stock.target_to - stock.target_from) * 100 * ScoreScale,
                           stock.target_from), 2)
            ELSE 0
        brokerScore == brokerageReputation(stock.brokerage) * 8
        recencyScore ==
            IF hours <= 168 THEN 10 * ScoreScale - Quot(hours * 10 * ScoreScale, 168) ELSE 0
        actionScore ==
            IF stringsContains(Runes(stock.action), Runes("upgraded")) THEN 8 * ScoreScale
            ELSE IF stringsContains(Runes(stock.action), Runes("initiated")) THEN 6 * ScoreScale
            ELSE IF stringsContains(Runes(stock.action), Runes("reiterated")) THEN 5 * ScoreScale
            ELSE 0
        strongBuyBonus == IF stock.rating_to = "Strong Buy" THEN 15 * ScoreScale ELSE 0
        totalScore == ratingScore + targetChangeScore + brokerScore
                         + recencyScore + actionScore + strongBuyBonus
    IN IF totalScore > 0 THEN totalScore ELSE 0

calculateRatingChange(from, to) ==
    IF from = to THEN <<"Mantiene ", from>> ELSE <<"De ", from, " a ", to>>

(* formatTargetChange on whole-dollar amounts *)
formatTargetChange(change) ==
    IF change > 0 THEN <<"+$", change, ".00">>
    ELSE IF change < 0 THEN <<"-$", -change, ".00">>
    ELSE <<"Sin cambio">>

(* The StockRecommendation built from one record. *)
Recommendation(stock) ==
    [stock          |-> stock,
     score          |-> calculateStockScore(stock, stock.hours),
     rating_change  |-> calculateRatingChange(stock.rating_from, stock.rating_to),
     target_change  |-> formatTargetChange(stock.target_to - stock.target_from),
     percent_change |-> 0]

(* A map update that keeps the first record of a ticker. *)
replaces_firstWins(exists, currentScore, existingScore) == ~exists

(* processRecommendations: !exists || currentScore > existing.Score *)
replaces(exists, currentScore, existingScore) ==
    ~exists \/ currentScore > existingScore

(* stockMap after the first k records *)
RECURSIVE stockMap(_, _)
stockMap(stocks, k) ==
    IF k = 0 THEN [t \in {} |-> 0]
    ELSE LET m == stockMap(stocks, k - 1)
             stock == stocks[k]
             exists == stock.ticker \in DOMAIN m
         IN IF ~ParsesRFC3339(Runes(stock.time)) THEN m
            ELSE IF replaces(exists, Recommendation(stock).score,
                             IF exists THEN m[stock.ticker].score ELSE 0)
            THEN [t \in DOMAIN m \cup {stock.ticker} |->
                     IF t = stock.ticker THEN Recommendation(stock) ELSE m[t]]
            ELSE m

(* The comparison handed to sort.Slice. *)
recLess(a, b) ==
    IF a.score = b.score THEN a.stock.target_to > b.stock.target_to
    ELSE a.score > b.score

(* The slices processRecommendations can return: the map is iterated in   *)
(* any order and sort.Slice is not stable.                                 *)
processRecommendations(stocks) ==
    LET m == stockMap(stocks, Len(stocks))
        recs == {m[t] : t \in DOMAIN m}
    IN {s \in [1..Cardinality(recs) -> recs] :
           /\ \A i, j \in 1..Cardinality(recs) : i # j => s[i] # s[j]
           /\ \A i, j \in 1..Cardinality(recs) : i < j => ~recLess(s[j], s[i])}

RecoStock(ticker, from, to, tf, tt, brokerage, action, time, hours) ==
    [ticker |-> ticker, company |-> ticker, brokerage |-> brokerage, action |-> action,
     rating_from |-> from, rating_to |-> to, target_from |-> tf, target_to |-> tt,
     time |-> time, hours |-> hours]

(* The records the input lists are drawn from. *)
RecoStocks ==
    {RecoStock("AAPL", "Neutral", "Buy", 150, 180, "Morgan Stanley", "upgraded by",
               "2025-06-01T12:00:00Z", 0),
     RecoStock("AAPL", "Buy", "Strong Buy", 100, 110, "The Goldman Sachs Group",
               "upgraded by", "2025-05-28T07:30:00-05:00", 84),
     RecoStock("AAPL", "Sell", "Strong Buy", 100, 200, "The Goldman Sachs Group",
               "upgraded by", "2025-06-01 12:00:00", 0),
     RecoStock("AAPL", "Market Perform", "Outperform", 300, 360, "Morgan Stanley",
               "upgraded by", "2025-06-01T12:00:00.5Z", 0),
     RecoStock("MSFT", "Buy", "Sell", 200, 100, "Unknown Capital", "downgraded by",
               "2025-06-01T12:00:00Z", 200),
     RecoStock("MSFT", "Neutral", "Neutral", 0, 50, "Other", "reiterated by",
               "2025-06-01T12:00:00Z", 168),
     RecoStock("MSFT", "Neutral", "Buy", 100, 120, "Benchmark", "initiated by",
               "2025-02-30T10:00:00Z", 0),
     RecoStock("GOOG", "Hold", "Buy", 100, 150, "Citigroup", "target raised by", "", 0)}

RECURSIVE SeqsUpTo(_, _)
SeqsUpTo(S, n) ==
    IF n = 0 THEN {<<>>}
    ELSE SeqsUpTo(S, n - 1) \cup {Append(s, x) : s \in {t \in SeqsUpTo(S, n - 1) : Len(t) = n - 1}, x \in S}

(* processRecommendations called on a list read from the table. *)
InitReco ==
    /\ pc = "reco"
    /\ exitCode = -1
    /\ panicked = FALSE
    /\ apiKey = TRUE
    /\ pages = RemotePages(1, TRUE, 26)
    /\ db = ConfiguredHandle
    /\ tableExists = TRUE
    /\ store = {}
    /\ initLog = <<>>
    /\ initErr = NoErr
    /\ initRaw = NoInit
    /\ replaced = NoReplaced
    /\ lastCheck = NoCheck
    /\ recStocks \in SeqsUpTo(RecoStocks, MaxRecs)
    /\ recommendations = <<>>
    /\ listReq = NoReq
    /\ listResp = NoResp
    /\ nextPage = ""
    /\ allStocks = <<>>
    /\ fetchTry = 0
    /\ fetchLog = <<>>
    /\ fetchErrs = <<>>
    /\ fetchRes = NoRes
    /\ requests = <<>>
    /\ idx = 0
    /\ successCount = 0
    /\ failedCount = 0
    /\ results = <<>>
    /\ invoked = <<>>
    /\ saveErr = NoErr
    /\ attempt = 0
    /\ lastErr = NoErr
    /\ txErr = NoErr
    /\ txRaw = NoTx
    /\ txTimeout = 0
    /\ plainOnly = TRUE
    /\ overwrote = FALSE
    /\ batchErr = NoErr
    /\ batchLog = <<>>

ProcessRecommendations ==
    /\ pc = "reco"
    /\ recommendations' \in processRecommendations(recStocks)
    /\ pc' = "recodone"
    /\ UNCHANGED <<exitCode, panicked, envVars, dbVars, initLog, initErr, initRaw, lastCheck,
                   replaced,
                   recStocks, listReq, listResp, fetchVars, saveVars, batchVars>>

NextReco == ProcessRecommendations

SpecReco == InitReco /\ [][NextReco]_vars

(* The positions of the input whose time parses as RFC3339. *)
Parsable == {k \in 1..Len(recStocks) : ParsesRFC3339(Runes(recStocks[k].time))}

(* C20: the result of processRecommendations has at most one entry per     *)
(* ticker; each entry is built from a record of its ticker with a parsable *)
(* time whose score is the highest among such records of the ticker; and   *)
(* every ticker with a parsable record has an entry.                       *)
C20_OnePerTicker ==
    pc = "recodone" =>
        /\ \A i, j \in 1..Len(recommendations) :
              recommendations[i].stock.ticker = recommendations[j].stock.ticker => i = j
        /\ \A i \in 1..Len(recommendations) :
              \E k \in Parsable :
                 /\ recommendations[i].stock = recStocks[k]
                 /\ recommendations[i].score = calculateStockScore(recStocks[k], recStocks[k].hours)
                 /\ \A k2 \in Parsable :
                       recStocks[k2].ticker = recStocks[k].ticker =>
                          calculateStockScore(recStocks[k2], recStocks[k2].hours)
                             <= recommendations[i].score
        /\ \A k \in Parsable :
              \E i \in 1..Len(recommendations) :
                 recommendations[i].stock.ticker = recStocks[k].ticker

C20_Witness ==
    /\ pc = "recodone"
    /\ Len(recStocks) = 3
    /\ recStocks[1].ticker = "AAPL" /\ recStocks[2].ticker = "AAPL" /\ recStocks[3].ticker = "AAPL"
    /\ Parsable = {1, 2}
    /\ Len(recommendations) = 1
    /\ recommendations[1].stock = recStocks[2]
    /\ recommendations[1].score > calculateStockScore(recStocks[1], recStocks[1].hours)
    /\ recommendations[1].score < calculateStockScore(recStocks[3], recStocks[3].hours)

(* C21: every transaction attempt of processBatch has a connection check   *)
(* of its own: a checkDBConnection that ran after the previous attempt of  *)
(* the batch ended and before this attempt's transaction was opened.       *)
C21_CheckBeforeAttempt ==
    \A k \in 1..Len(batchLog) :
        batchLog[k].ev = "tx" =>
            \E j \in 1..(k - 1) :
                /\ batchLog[j].ev = "check"
                /\ \A i \in (j + 1)..(k - 1) : batchLog[i].ev # "tx"

(* C22: a reconnect of processBatch that fails, at whatever stage, is not  *)
(* fatal: the backoff sleep and the next transaction attempt follow, and   *)
(* every transaction attempt ends as a result of attemptTransaction, never *)
(* as a crash of the run.                                                  *)
C22_BestEffortReconnect ==
    [][/\ (pc = "txret" /\ initRaw' # NoInit /\ initErr' # NoErr) =>
             /\ pc' = "attempt"
             /\ attempt' = attempt + 1
             /\ batchLog'[Len(batchLog')] = Ev("sleep", attempt, Pow2(attempt - 1) * 500)
       /\ pc = "attempt" =>
             /\ pc' = "txret"
             /\ ~panicked'
             /\ exitCode' = exitCode]_vars

(* C23: after a failed attempt n processBatch calls initDB exactly when    *)
(* n < 5, the error is retryable and its text contains "connection",       *)
(* "broken", "reset by peer" or "i/o timeout"; the call comes before the   *)
(* backoff sleep and before attempt n+1.                                   *)
C23_ReconnectTrigger ==
    [][(pc = "txret" /\ txErr # NoErr) =>
          LET msg == ErrText(txErr)
              connClass == \/ contains(msg, Chars("connection"))
                           \/ contains(msg, Chars("broken"))
                           \/ contains(msg, Chars("reset by peer"))
                           \/ contains(msg, Chars("i/o timeout"))
          IN /\ initRaw' # NoInit <=> (attempt < 5 /\ isRetryableError(txErr) /\ connClass)
             /\ initRaw' # NoInit =>
                   /\ pc' = "attempt"
                   /\ attempt' = attempt + 1
                   /\ batchLog' = batchLog \o <<Ev("initDB", attempt, 0),
                                                Ev("sleep", attempt, Pow2(attempt - 1) * 500)>>
             /\ initRaw' = NoInit =>
                   \A k \in 1..Len(batchLog') :
                       batchLog'[k].ev = "initDB" => batchLog'[k] \in
                           {batchLog[j] : j \in 1..Len(batchLog)}]_vars

C23_Witness ==
    /\ pc = "attempt"
    /\ attempt = 3
    /\ txRaw.msg = "bad connection"
    /\ initRaw.stage = "ok"
    /\ SubSeq(batchLog, Len(batchLog) - 1, Len(batchLog))
          = <<Ev("initDB", 2, 0), Ev("sleep", 2, 1000)>>

(* C24: in saveStocks cleanupResources and the connection check after it   *)
(* run after batch k exactly when k is a multiple of 5 and batches remain. *)
C24_JanitorCadence ==
    [][pc = "batchret" =>
          (lastCheck'.cleaned <=>
              (BatchNo(idx) % 5 = 0 /\ idx + 25 < Len(allStocks)))]_vars

(* C25: the run is sequential: while a batch is being processed every page *)
(* has been fetched and no page request is under way; before fetch-all has *)
(* returned no batch and no transaction has been started; batch k is       *)
(* attempted only after batches 1..k-1 have returned; and the attempts of  *)
(* a batch follow one another.                                             *)
C25_SequentialOrder ==
    /\ pc \in {"batch", "attempt", "txret", "batchret", "loopdone"} =>
          /\ requests = ExpectedRequests
          /\ allStocks = ConcatItems(pages, Len(pages))
          /\ fetchTry = 0 /\ fetchLog = <<>>
    /\ pc \in {"start", "initdb", "initdb2", "fetch", "fetched", "save"} =>
          /\ invoked = <<>> /\ results = <<>>
          /\ txRaw = NoTx /\ batchLog = <<>> /\ attempt = 0
    /\ pc \in {"attempt", "txret"} =>
          /\ invoked = [j \in 1..BatchNo(idx) |-> j]
          /\ Len(results) = BatchNo(idx) - 1
          /\ LET txs == SelectSeq(batchLog, LAMBDA e : e.ev = "tx")
             IN /\ \A k \in 1..Len(txs) : txs[k].n = k
                /\ Len(txs) = IF pc = "txret" THEN attempt ELSE attempt - 1

C25_Witness ==
    /\ pc = "txret"
    /\ BatchNo(idx) = 2
    /\ attempt = 2
    /\ Len(results) = 1
    /\ Len(requests) = 3

(* The lengths of the record sequences handed to saveStocks. *)
SaveLens == {1, 24, 25, 26, 50}

(* saveStocks called on a sequence of records over a healthy handle. *)
InitSave ==
    /\ pc = "save"
    /\ exitCode = -1
    /\ panicked = FALSE
    /\ apiKey = TRUE
    /\ pages = RemotePages(1, FALSE, 26)
    /\ \E n \in SaveLens : allStocks = [k \in 1..n |-> Stock(k, 26)]
    /\ db = ConfiguredHandle
    /\ tableExists = TRUE
    /\ store = {}
    /\ initLog = <<>>
    /\ initErr = NoErr
    /\ initRaw = NoInit
    /\ replaced = NoReplaced
    /\ lastCheck = NoCheck
    /\ recStocks = <<>>
    /\ recommendations = <<>>
    /\ listReq = NoReq
    /\ listResp = NoResp
    /\ nextPage = ""
    /\ fetchTry = 0
    /\ fetchLog = <<>>
    /\ fetchErrs = <<>>
    /\ fetchRes = NoRes
    /\ requests = <<>>
    /\ idx = 0
    /\ successCount = 0
    /\ failedCount = 0
    /\ results = <<>>
    /\ invoked = <<>>
    /\ saveErr = NoErr
    /\ attempt = 0
    /\ lastErr = NoErr
    /\ txErr = NoErr
    /\ txRaw = NoTx
    /\ txTimeout = 0
    /\ plainOnly = TRUE
    /\ overwrote = FALSE
    /\ batchErr = NoErr
    /\ batchLog = <<>>

SpecSave == InitSave /\ [][NextBatch]_vars

RECURSIVE ConcatBatches(_)
ConcatBatches(n) ==
    IF n = 0 THEN <<>> ELSE ConcatBatches(n - 1) \o Batch(25 * (n - 1))

(* C26: saveStocks carves N > 0 records into ceil(N/25) batches: batch k   *)
(* is the contiguous run of records 25(k-1)+1 .. min(25k, N) in input      *)
(* order, never empty, of exactly 25 records unless it is the last; the    *)
(* batches put end to end are the input.                                   *)
C26_BatchPartition ==
    /\ pc \in {"batch", "attempt", "txret", "batchret"} =>
          LET k == IF pc = "batch" THEN Len(invoked) + 1 ELSE Len(invoked)
              size == Len(Batch(idx))
          IN /\ idx = 25 * (k - 1)
             /\ idx < Len(allStocks)
             /\ size \in 1..25
             /\ size # 25 => idx + size = Len(allStocks)
             /\ \A j \in 1..size : Batch(idx)[j] = allStocks[idx + j]
    /\ pc = "loopdone" =>
          LET n == (Len(allStocks) + 24) \div 25
          IN /\ invoked = [j \in 1..n |-> j]
             /\ Len(results) = n
             /\ ConcatBatches(n) = allStocks

C26_Witness ==
    /\ pc = "loopdone"
    /\ Len(allStocks) = 50
    /\ invoked = <<1, 2>>
    /\ Len(Batch(25)) = 25

(* C27: saveStocks always comes to its return: it makes at most 5          *)
(* transaction attempts per batch for at most ceil(N/25) batches, each     *)
(* initDB call makes at most 5 connect attempts, and when the run has      *)
(* ended saveStocks has returned, not been cut short.                      *)
C27_SaveTerminates ==
    /\ attempt <= 5
    /\ Cardinality({k \in 1..Len(batchLog) : batchLog[k].ev = "tx"}) <= 5
    /\ Cardinality({k \in 1..Len(initLog) : initLog[k].ev = "connect"}) <= 5
    /\ Len(invoked) <= (Len(allStocks) + 24) \div 25
    /\ pc = "exit" => ~panicked

(* C28: once a transaction attempt of a batch has committed, processBatch  *)
(* returns success at once: no further attempt, backoff sleep or reconnect *)
(* is made for the batch, and saveStocks records it as a success.          *)
C28_CommitOnce ==
    [][/\ (pc = "txret" /\ txRaw.stage = "ok") =>
             /\ pc' = "batchret"
             /\ batchErr' = NoErr
             /\ batchLog' = batchLog
             /\ attempt' = attempt
             /\ initRaw' = NoInit
             /\ UNCHANGED dbVars
       /\ (pc = "batchret" /\ txRaw.stage = "ok") =>
             /\ results' = Append(results, TRUE)
             /\ invoked' = invoked
             /\ pc' \in {"batch", "loopdone"}]_vars

C28_Witness ==
    /\ pc = "batchret"
    /\ txRaw.stage = "ok"
    /\ attempt = 3
    /\ batchErr = NoErr
    /\ Len(SelectSeq(batchLog, LAMBDA e : e.ev = "tx")) = 3

(* C29: whenever initDB overwrites the process-wide handle, the handle it  *)
(* overwrites has been closed, so that at most one un-closed pool handle   *)
(* exists.                                                                 *)
C29_NoHandleLeak ==
    replaced.existed => replaced.closed

(* C30: when the connection check at the start of saveStocks fails,        *)
(* saveStocks returns that error at once: no batch is handed to            *)
(* processBatch, no record is counted as success or as failed, and no      *)
(* transaction is opened.                                                  *)
C30_InitialCheckGates ==
    [][(pc = "save" /\ lastCheck'.called /\ lastCheck'.err # NoErr) =>
          /\ pc' = "exit"
          /\ exitCode' = 1
          /\ saveErr' = <<"error verificando conexion inicial: ">> \o lastCheck'.err
          /\ UNCHANGED <<idx, successCount, failedCount, results, invoked, batchLog, txRaw>>]_vars

C30_Witness ==
    /\ pc = "exit"
    /\ Len(allStocks) > 0
    /\ lastCheck.called /\ lastCheck.err # NoErr
    /\ saveErr = <<"error verificando conexion inicial: ">> \o lastCheck.err
    /\ invoked = <<>> /\ successCount = 0 /\ failedCount = 0 /\ txRaw = NoTx

(* ---- the listing endpoint of the API server (src/main.go) ---- *)

(* Go's int on the 64-bit build: two's complement in four 16-bit limbs, *)
(* most significant first.                                              *)
Limb == 65536
SignLimb == 32768
Int64(n) == <<0, 0, 0, n>>
Zero64 == Int64(0)
MinInt64Magnitude == <<SignLimb, 0, 0, 0>>

IsNeg64(x) == x[1] >= SignLimb

(* a + b on int: the carry out of the top limb is dropped *)
Add64(x, y) ==
    LET s4 == x[4] + y[4]
        s3 == x[3] + y[3] + (s4 \div Limb)
        s2 == x[2] + y[2] + (s3 \div Limb)
        s1 == x[1] + y[1] + (s2 \div Limb)
    IN <<s1 % Limb, s2 % Limb, s3 % Limb, s4 % Limb>>

ULess64(x, y) ==
    \E k \in 1..4 : /\ x[k] < y[k]
                    /\ \A j \in 1..(k - 1) : x[j] = y[j]

(* a < b on int *)
Less64(x, y) ==
    IF IsNeg64(x) # IsNeg64(y) THEN IsNeg64(x) ELSE ULess64(x, y)

Neg64(x) == Add64([k \in 1..4 |-> Limb - 1 - x[k]], Int64(1))

(* strconv: the digits cs[k..] accumulated onto acc, n = n*10 + d, with *)
(* the overflow of 64 bits remembered.                                  *)
RECURSIVE Magnitude(_, _, _)
Magnitude(cs, k, acc) ==
    IF k > Len(cs) THEN acc
    ELSE LET d == DigitVal[cs[k]]
             t4 == acc.n[4] * 10 + d
             t3 == acc.n[3] * 10 + (t4 \div Limb)
             t2 == acc.n[2] * 10 + (t3 \div Limb)
             t1 == acc.n[1] * 10 + (t2 \div Limb)
         IN Magnitude(cs, k + 1,
                      [n |-> <<t1 % Limb, t2 % Limb, t3 % Limb, t4 % Limb>>,
                       over |-> acc.over \/ t1 >= Limb])

(* strconv.Atoi: an optional sign and one or more decimal digits, in the *)
(* range of int; anything else is an error.                              *)
Atoi(cs) ==
    LET signed == Len(cs) > 0 /\ cs[1] \in {"+", "-"}
        neg == Len(cs) > 0 /\ cs[1] = "-"
        from == IF signed THEN 2 ELSE 1
    IN IF from > Len(cs) \/ ~IsDigits(cs, from, Len(cs))
       THEN [n |-> Zero64, ok |-> FALSE]
       ELSE LET m == Magnitude(cs, from, [n |-> Zero64, over |-> FALSE])
            IN IF m.over \/ (IsNeg64(m.n) /\ ~(neg /\ m.n = MinInt64Magnitude))
               THEN [n |-> Zero64, ok |-> FALSE]
               ELSE [n |-> IF neg THEN Neg64(m.n) ELSE m.n, ok |-> TRUE]

(* c.DefaultQuery *)
DefaultQuery(value, defaultValue) == IF value.present THEN value.text ELSE defaultValue

(* nextNum after the validation of the next parameter *)
nextNumOf(next) ==
    LET a == Atoi(next) IN IF a.ok /\ ~Less64(a.n, Zero64) THEN a.n ELSE Zero64

(* limitNum after the validation of the limit parameter *)
limitNumOf(limit) ==
    LET a == Atoi(limit)
    IN IF a.ok /\ Less64(Zero64, a.n) /\ ~Less64(Int64(100), a.n) THEN a.n ELSE Int64(50)

(* SELECT * FROM stocks ORDER BY time DESC OFFSET $1 LIMIT $2: how many *)
(* of the `total` rows it returns.                                      *)
SelectedRows(total, nextNum, limitNum) ==
    IF ULess64(nextNum, Int64(total))
    THEN IF limitNum[4] < total - nextNum[4] THEN limitNum[4] ELSE total - nextNum[4]
    ELSE 0

(* The GET /api/stocks handler on a table of `total` rows; countOK and *)
(* selectOK tell whether the two queries succeed.                      *)
listStocks(q, total, countOK, selectOK) ==
    LET next == DefaultQuery(q.next, <<"0">>)
        limit == DefaultQuery(q.limit, <<"5", "0">>)
        nextNum == nextNumOf(next)
        limitNum == limitNumOf(limit)
    IN IF ~countOK \/ ~selectOK
       THEN [status |-> 500]
       ELSE [status         |-> 200,
             data           |-> SelectedRows(total, nextNum, limitNum),
             current_offset |-> nextNum,
             per_page       |-> limitNum,
             total          |-> total,
             has_more       |-> Less64(Add64(nextNum, limitNum), Int64(total)),
             next_offset    |-> Add64(nextNum, limitNum)]

(* Bound of the number of stored rows. *)
MaxTotal == 4

(* The texts the two query parameters are drawn from: values around the *)
(* limits of the validation and of int, and texts that are no number.   *)
MaxInt64Text ==
    <<"9", "2", "2", "3", "3", "7", "2", "0", "3", "6", "8", "5", "4", "7", "7", "5", "8", "0", "7">>
QueryTexts ==
    {<<>>, <<"a", "b", "c">>, <<"1", "0", "x">>, <<"-">>,
     <<"0">>, <<"1">>, <<"2">>, <<"+", "3">>, <<"-", "1">>, <<"-", "0">>,
     <<"1", "0", "0">>, <<"1", "0", "1">>,
     MaxInt64Text,
     [MaxInt64Text EXCEPT ![19] = "8"],
     [MaxInt64Text EXCEPT ![17] = "7", ![18] = "0"],
     <<"-">> \o [MaxInt64Text EXCEPT ![19] = "8"],
     MaxInt64Text \o <<"0">>}

(* A GET /api/stocks request against a populated table. *)
InitList ==
    /\ pc = "list"
    /\ exitCode = -1
    /\ panicked = FALSE
    /\ apiKey = TRUE
    /\ pages = RemotePages(1, TRUE, 26)
    /\ db = ConfiguredHandle
    /\ tableExists = TRUE
    /\ \E n \in 0..MaxTotal : store = {Stock(k, 26) : k \in 1..n}
    /\ initLog = <<>>
    /\ initErr = NoErr
    /\ initRaw = NoInit
    /\ replaced = NoReplaced
    /\ lastCheck = NoCheck
    /\ recStocks = <<>>
    /\ recommendations = <<>>
    /\ \E next, limit \in {Absent} \cup {Given(cs) : cs \in QueryTexts} :
          listReq = [next |-> next, limit |-> limit]
    /\ listResp = NoResp
    /\ nextPage = ""
    /\ allStocks = <<>>
    /\ fetchTry = 0
    /\ fetchLog = <<>>
    /\ fetchErrs = <<>>
    /\ fetchRes = NoRes
    /\ requests = <<>>
    /\ idx = 0
    /\ successCount = 0
    /\ failedCount = 0
    /\ results = <<>>
    /\ invoked = <<>>
    /\ saveErr = NoErr
    /\ attempt = 0
    /\ lastErr = NoErr
    /\ txErr = NoErr
    /\ txRaw = NoTx
    /\ txTimeout = 0
    /\ plainOnly = TRUE
    /\ overwrote = FALSE
    /\ batchErr = NoErr
    /\ batchLog = <<>>

ListStocks ==
    /\ pc = "list"
    /\ \E countOK, selectOK \in BOOLEAN :
          listResp' = listStocks(listReq, Cardinality(store), countOK, selectOK)
    /\ pc' = "listdone"
    /\ UNCHANGED <<exitCode, panicked, envVars, dbVars, initLog, initErr, initRaw, lastCheck,
                   replaced, recStocks, recommendations, listReq,
                   fetchVars, saveVars, batchVars>>

NextList == ListStocks

SpecList == InitList /\ [][NextList]_vars

(* The exact value of a + b for a, b >= 0, in five limbs. *)
Sum(x, y) ==
    LET s4 == x[4] + y[4]
        s3 == x[3] + y[3] + (s4 \div Limb)
        s2 == x[2] + y[2] + (s3 \div Limb)
        s1 == x[1] + y[1] + (s2 \div Limb)
    IN <<s1 \div Limb, s1 % Limb, s2 % Limb, s3 % Limb, s4 % Limb>>

(* The exact value of an int that is >= 0, in five limbs. *)
Exact(x) == <<0>> \o x

ExactLess(x, y) ==
    \E k \in 1..5 : /\ x[k] < y[k]
                    /\ \A j \in 1..(k - 1) : x[j] = y[j]

(* The parameter texts that are no number, and those of a negative number. *)
NonNumericTexts == {<<>>, <<"a", "b", "c">>, <<"1", "0", "x">>, <<"-">>}
NegativeTexts == {<<"-", "1">>, <<"-">> \o [MaxInt64Text EXCEPT ![19] = "8"]}
NonPositiveTexts == NegativeTexts \cup {<<"0">>, <<"-", "0">>}
Over100Texts ==
    {<<"1", "0", "1">>, MaxInt64Text, [MaxInt64Text EXCEPT ![17] = "7", ![18] = "0"]}

(* C31: in every 200 answer of GET /api/stocks the offset is >= 0, and 0   *)
(* when next is missing, no number or negative; the limit is in 1..100,   *)
(* and 50 when limit is missing, no number, <= 0 or > 100; next_offset is *)
(* offset + limit; and has_more is true exactly when offset + limit is    *)
(* less than the number of stored rows.                                   *)
C31_PaginationArithmetic ==
    (pc = "listdone" /\ listResp.status = 200) =>
        /\ ~IsNeg64(listResp.current_offset)
        /\ (~listReq.next.present \/ listReq.next.text \in NonNumericTexts \cup NegativeTexts) =>
              listResp.current_offset = Zero64
        /\ \E n \in 1..100 : listResp.per_page = Int64(n)
        /\ (\/ ~listReq.limit.present
            \/ listReq.limit.text \in NonNumericTexts \cup NonPositiveTexts \cup Over100Texts) =>
              listResp.per_page = Int64(50)
        /\ ~IsNeg64(listResp.next_offset)
        /\ Exact(listResp.next_offset) = Sum(listResp.current_offset, listResp.per_page)
        /\ listResp.has_more <=>
              ExactLess(Sum(listResp.current_offset, listResp.per_page),
                        Exact(Int64(Cardinality(store))))
====
